---- MODULE Spec2Model ----
(***************************************************************************)
(* Music Genre Identifier (src/main.py).                                   *)
(*                                                                         *)
(* predict_genre is a pure decision list over four spectral features.      *)
(* SpotifyStyleGUI drives it: load_audio picks a file, start_thread starts *)
(* a worker thread running analyze_audio, and the worker hands its results *)
(* back to the Tk main loop with root.after(0, callback).                  *)
(*                                                                         *)
(* Feature values are floats in the program.  predict_genre only compares  *)
(* them with integer thresholds, so a value is represented by an integer   *)
(* of the same threshold region: 1499 stands for every centroid just below *)
(* 1500, 1500 for the threshold itself, and so on.                         *)
(***************************************************************************)
EXTENDS Integers, Sequences, FiniteSets, TLC

VARIABLES
    features,           \* predict_genre harness: the quadruple passed in
    calls,              \* predict_genre harness: what each call returned
    audio_path,         \* self.audio_path
    upload_btn,         \* state of self.upload_btn
    analyze_btn,        \* state of self.analyze_btn
    status_label,       \* text of self.status_label
    result_label,       \* text of self.result_label
    filename_label,     \* text of self.filename_label
    spectrogram_label,  \* image/text of self.spectrogram_label and its .image
    dialog,             \* TRUE while askopenfilename's modal dialog is open
    threads,            \* the analyze_audio worker threads, by request number
    tkqueue,            \* callbacks handed to root.after(0, ...), in order
    delivered,          \* per request: what its callbacks put on the display
    decoded             \* paths librosa.load was called on

harness == <<features, calls>>
widgets == <<upload_btn, analyze_btn, status_label, result_label,
             filename_label, spectrogram_label>>
gui == <<audio_path, widgets, dialog, threads, tkqueue, delivered, decoded>>
vars == <<harness, gui>>

----------------------------------------------------------------------------
(* Bounds of the model *)

\* calls of predict_genre made on one quadruple
MaxCalls == 2

\* analysis requests started in one run (threads are numbered 1..MaxRequests)
MaxRequests == 2

\* Representative feature values: each threshold of predict_genre, the value
\* just below it and (where the comparison is strict from above) just above.
CentroidVals == {0, 1499, 1500, 2199, 2200, 2499, 2500, 3000, 3499, 3500,
                 3799, 3800, 4199, 4200, 5199, 5200, 6000}
RolloffVals == {0, 100, 2999, 3000, 3999, 4000, 4999, 5000, 5999, 6000,
                6999, 7000, 7001}
BandwidthVals == {0, 1500, 1501}
ContrastVals == {0, 21, 22, 24, 25}

FeatureGrid == CentroidVals \X RolloffVals \X BandwidthVals \X ContrastVals

----------------------------------------------------------------------------
(* Genre prediction: src/main.py lines 10-18 *)

\* predict_genre with "c <= 1500" on line 12
predict_genre_line_le(feats) ==
    LET c == feats[1]  r == feats[2]  b == feats[3]  ct == feats[4] IN
    IF c <= 1500 /\ r < 3000 THEN 12
    ELSE IF 1500 <= c /\ c < 2500 /\ ct < 25 THEN 13
    ELSE IF 2200 <= c /\ c < 4200 /\ 4000 <= r /\ r < 7000 /\ ct < 22 /\ b > 1500
         THEN 14
    ELSE IF c >= 3500 /\ ct >= 25 /\ r >= 5000 THEN 15
    ELSE IF c >= 5200 \/ r > 7000 THEN 16
    ELSE IF 2500 <= c /\ c < 3800 /\ r < 6000 THEN 17
    ELSE 18

\* predict_genre with lines 13 and 14 in the other order
predict_genre_line_swap(feats) ==
    LET c == feats[1]  r == feats[2]  b == feats[3]  ct == feats[4] IN
    IF c < 1500 /\ r < 3000 THEN 12
    ELSE IF 2200 <= c /\ c < 4200 /\ 4000 <= r /\ r < 7000 /\ ct < 22 /\ b > 1500
         THEN 14
    ELSE IF 1500 <= c /\ c < 2500 /\ ct < 25 THEN 13
    ELSE IF c >= 3500 /\ ct >= 25 /\ r >= 5000 THEN 15
    ELSE IF c >= 5200 \/ r > 7000 THEN 16
    ELSE IF 2500 <= c /\ c < 3800 /\ r < 6000 THEN 17
    ELSE 18

\* predict_genre with "and" for "or" on line 16
predict_genre_line_and(feats) ==
    LET c == feats[1]  r == feats[2]  b == feats[3]  ct == feats[4] IN
    IF c < 1500 /\ r < 3000 THEN 12
    ELSE IF 1500 <= c /\ c < 2500 /\ ct < 25 THEN 13
    ELSE IF 2200 <= c /\ c < 4200 /\ 4000 <= r /\ r < 7000 /\ ct < 22 /\ b > 1500
         THEN 14
    ELSE IF c >= 3500 /\ ct >= 25 /\ r >= 5000 THEN 15
    ELSE IF c >= 5200 /\ r > 7000 THEN 16
    ELSE IF 2500 <= c /\ c < 3800 /\ r < 6000 THEN 17
    ELSE 18

\* predict_genre with "r > 6000" for "r < 6000" on line 17
predict_genre_line_r6000(feats) ==
    LET c == feats[1]  r == feats[2]  b == feats[3]  ct == feats[4] IN
    IF c < 1500 /\ r < 3000 THEN 12
    ELSE IF 1500 <= c /\ c < 2500 /\ ct < 25 THEN 13
    ELSE IF 2200 <= c /\ c < 4200 /\ 4000 <= r /\ r < 7000 /\ ct < 22 /\ b > 1500
         THEN 14
    ELSE IF c >= 3500 /\ ct >= 25 /\ r >= 5000 THEN 15
    ELSE IF c >= 5200 \/ r > 7000 THEN 16
    ELSE IF 2500 <= c /\ c < 3800 /\ r > 6000 THEN 17
    ELSE 18

\* The line of predict_genre whose return statement runs for a quadruple.
predict_genre_line(feats) ==
    LET c == feats[1]  r == feats[2]  b == feats[3]  ct == feats[4] IN
    IF c < 1500 /\ r < 3000 THEN 12
    ELSE IF 1500 <= c /\ c < 2500 /\ ct < 25 THEN 13
    ELSE IF 2200 <= c /\ c < 4200 /\ 4000 <= r /\ r < 7000 /\ ct < 22 /\ b > 1500
         THEN 14
    ELSE IF c >= 3500 /\ ct >= 25 /\ r >= 5000 THEN 15
    ELSE IF c >= 5200 \/ r > 7000 THEN 16
    ELSE IF 2500 <= c /\ c < 3800 /\ r < 6000 THEN 17
    ELSE 18

\* return values with the last line's "return" missing (Python returns None)
ReturnValueNoDefault(line) ==
    CASE line = 12 -> "Classical"
      [] line = 13 -> "Jazz"
      [] line = 14 -> "Phonk"
      [] line = 15 -> "Hip-Hop / Rap"
      [] line = 16 -> "Rock"
      [] line = 17 -> "Pop"
      [] OTHER -> "None"

\* The value returned by the return statement on a line of predict_genre.
ReturnValue(line) ==
    CASE line = 12 -> "Classical"
      [] line = 13 -> "Jazz"
      [] line = 14 -> "Phonk"
      [] line = 15 -> "Hip-Hop / Rap"
      [] line = 16 -> "Rock"
      [] line = 17 -> "Pop"
      [] line = 18 -> "Pop"

predict_genre(feats) == ReturnValue(predict_genre_line(feats))

----------------------------------------------------------------------------
(* Files the user can pick.  A path is the list of its "/"-separated parts, *)
(* which is what path.split("/") yields; the empty list stands for None    *)
(* and for the empty string a cancelled dialog returns (both are falsy).   *)

NoPath == <<>>

WavPath == <<"music", "a.wav">>
Mp3Path == <<"music", "b.mp3">>
OggPath == <<"music", "bad.ogg">>
TxtPath == <<"docs", "notes.txt">>

Paths == {WavPath, Mp3Path, OggPath, TxtPath}

\* What is on disk: a.wav and b.mp3 are sound audio, bad.ogg is corrupt and
\* notes.txt is plain text.  "features" is what lines 24-27 compute.
Disk(path) ==
    CASE path = WavPath -> [ext |-> ".wav", audio |-> TRUE,
                            features |-> <<3000, 100, 0, 0>>]
      [] path = Mp3Path -> [ext |-> ".mp3", audio |-> TRUE,
                            features |-> <<6000, 100, 0, 0>>]
      [] path = OggPath -> [ext |-> ".ogg", audio |-> FALSE,
                            features |-> <<0, 0, 0, 0>>]
      [] path = TxtPath -> [ext |-> ".txt", audio |-> FALSE,
                            features |-> <<0, 0, 0, 0>>]

\* path.split("/")[-1]
Basename(path) == path[Len(path)]

\* analyze_audio_file: librosa.load is the first thing it does, whatever the
\* path; a file that is not audio makes it raise librosa's own error.
\* "loaded" says that librosa.load was called.
analyze_audio_file(path) ==
    IF Disk(path).audio
    THEN [ok |-> TRUE, loaded |-> TRUE, features |-> Disk(path).features]
    ELSE [ok |-> FALSE, loaded |-> TRUE, e |-> "decode"]

----------------------------------------------------------------------------
(* State after SpotifyStyleGUI.__init__ *)

Requests == 1..MaxRequests

NewThread == [pc |-> "unstarted", fname |-> "", path |-> NoPath, genre |-> "",
              imgtk |-> 0, e |-> "unbound", raised |-> "none"]

GuiInit ==
    /\ audio_path = NoPath
    /\ upload_btn = "normal"
    /\ analyze_btn = "normal"
    /\ status_label = <<"Status: Waiting for audio...">>
    /\ result_label = [genre |-> "-", analysed |-> NoPath]
    /\ filename_label = <<"File", "-">>
    /\ spectrogram_label = [image |-> 0, text |-> "Spectrogram will appear here",
                            ref |-> 0]
    /\ dialog = FALSE
    /\ threads = [i \in Requests |-> NewThread]
    /\ tkqueue = <<>>
    /\ delivered = [i \in Requests |->
                       [label |-> FALSE, image |-> FALSE, error |-> FALSE]]
    /\ decoded = {}

Init ==
    /\ features = <<0, 0, 0, 0>>
    /\ calls = <<>>
    /\ GuiInit

----------------------------------------------------------------------------
(* Helpers *)

Started(i) == threads[i].pc # "unstarted"

\* a thread object that has been started and has not returned
Alive(i) == threads[i].pc \notin {"unstarted", "returned"}

\* the number the next thread gets
NextRequest == Cardinality({i \in Requests : Started(i)}) + 1

\* root.after(0, cb): the callback joins the timer queue behind those
\* already waiting
After(i, kind) == Append(tkqueue, [req |-> i, kind |-> kind])

Goto(i, pc) == [threads EXCEPT ![i].pc = pc]

----------------------------------------------------------------------------
(* load_audio: src/main.py lines 95-104.  askopenfilename blocks in a modal *)
(* dialog that keeps the Tk event loop running, so the handler is split at *)
(* the dialog: opening it, and its two ways of closing.                    *)

\* load_audio without the reset of result_label on line 102
LoadAudioChooseKeepResult(path) ==
    /\ dialog
    /\ dialog' = FALSE
    /\ audio_path' = path
    /\ status_label' = <<"Loaded", Basename(path)>>
    /\ filename_label' = <<"File", Basename(path)>>
    /\ spectrogram_label' = [spectrogram_label EXCEPT
                                !.image = 0,
                                !.text = "Spectrogram will appear here"]
    /\ UNCHANGED <<harness, upload_btn, analyze_btn, result_label, threads,
                   tkqueue, delivered, decoded>>

\* the user clicks "Upload Audio": line 96 opens the dialog
LoadAudioOpen ==
    /\ upload_btn = "normal"
    /\ ~dialog
    /\ dialog' = TRUE
    /\ UNCHANGED <<harness, audio_path, widgets, threads, tkqueue, delivered,
                   decoded>>

\* the dialog returns a path: lines 97-104.  The filetypes filter only
\* chooses what the dialog lists; a typed name of any extension is returned.
LoadAudioChoose(path) ==
    /\ dialog
    /\ dialog' = FALSE
    /\ audio_path' = path
    /\ status_label' = <<"Loaded", Basename(path)>>
    /\ result_label' = [genre |-> "-", analysed |-> NoPath]
    /\ filename_label' = <<"File", Basename(path)>>
    /\ spectrogram_label' = [spectrogram_label EXCEPT
                                !.image = 0,
                                !.text = "Spectrogram will appear here"]
    /\ UNCHANGED <<harness, upload_btn, analyze_btn, threads, tkqueue,
                   delivered, decoded>>

\* the dialog is cancelled: path is empty and line 97 skips the body
LoadAudioCancel ==
    /\ dialog
    /\ dialog' = FALSE
    /\ UNCHANGED <<harness, audio_path, widgets, threads, tkqueue, delivered,
                   decoded>>

----------------------------------------------------------------------------
(* start_thread: src/main.py lines 106-113 *)

\* start_thread without lines 110-111 (the controls stay enabled)
StartThreadNoDisable ==
    /\ analyze_btn = "normal"
    /\ ~dialog
    /\ IF audio_path = NoPath
       THEN /\ status_label' = <<"Please upload an audio file.">>
            /\ UNCHANGED <<upload_btn, analyze_btn, threads>>
       ELSE /\ NextRequest \in Requests
            /\ UNCHANGED <<upload_btn, analyze_btn>>
            /\ status_label' = <<"Analyzing...">>
            /\ threads' = Goto(NextRequest, "l117")
    /\ UNCHANGED <<harness, audio_path, result_label, filename_label,
                   spectrogram_label, dialog, tkqueue, delivered, decoded>>

\* the user clicks "Analyze Audio" (a disabled button runs no command, and
\* the modal dialog takes the clicks while it is open)
StartThread ==
    /\ analyze_btn = "normal"
    /\ ~dialog
    /\ IF audio_path = NoPath
       THEN /\ status_label' = <<"Please upload an audio file.">>
            /\ UNCHANGED <<upload_btn, analyze_btn, threads>>
       ELSE /\ NextRequest \in Requests
            /\ upload_btn' = "disabled"
            /\ analyze_btn' = "disabled"
            /\ status_label' = <<"Analyzing...">>
            /\ threads' = Goto(NextRequest, "l117")
    /\ UNCHANGED <<harness, audio_path, result_label, filename_label,
                   spectrogram_label, dialog, tkqueue, delivered, decoded>>

----------------------------------------------------------------------------
(* analyze_audio, the worker thread: src/main.py lines 115-156.  One action *)
(* per statement that reads shared state or calls root.after; the pc names *)
(* the line the thread is about to run.                                    *)

unchangedByWorker == <<harness, audio_path, widgets, dialog, delivered>>

\* line 117: fname = self.audio_path.split("/")[-1]
Worker117(i) ==
    /\ threads[i].pc = "l117"
    /\ threads' = [threads EXCEPT ![i].fname = Basename(audio_path),
                                  ![i].pc = "l118"]
    /\ UNCHANGED <<unchangedByWorker, tkqueue, decoded>>

\* lines 118-119: analyze_audio_file(self.audio_path), then predict_genre;
\* an exception of analyze_audio_file goes to the handler on line 153
Worker118(i) ==
    /\ threads[i].pc = "l118"
    /\ LET got == analyze_audio_file(audio_path) IN
       /\ decoded' = IF got.loaded THEN decoded \cup {audio_path} ELSE decoded
       /\ threads' =
            IF got.ok
            THEN [threads EXCEPT ![i].path = audio_path,
                                 ![i].genre = predict_genre(got.features),
                                 ![i].pc = "l122"]
            ELSE [threads EXCEPT ![i].path = audio_path,
                                 ![i].e = got.e,
                                 ![i].raised = got.e,
                                 ![i].pc = "l154"]
    /\ UNCHANGED <<unchangedByWorker, tkqueue>>

\* lines 122-123: root.after(0, <set result_label>)
Worker122(i) ==
    /\ threads[i].pc = "l122"
    /\ tkqueue' = After(i, "result")
    /\ threads' = Goto(i, "l124")
    /\ UNCHANGED <<unchangedByWorker, decoded>>

\* lines 124-125: root.after(0, <set status_label to complete>)
Worker124(i) ==
    /\ threads[i].pc = "l124"
    /\ tkqueue' = After(i, "complete")
    /\ threads' = Goto(i, "l126")
    /\ UNCHANGED <<unchangedByWorker, decoded>>

\* lines 126-127: root.after(0, <set filename_label>)
Worker126(i) ==
    /\ threads[i].pc = "l126"
    /\ tkqueue' = After(i, "filename")
    /\ threads' = Goto(i, "l130")
    /\ UNCHANGED <<unchangedByWorker, decoded>>

\* lines 130-143: the spectrogram is drawn with matplotlib and turned into
\* a PhotoImage, off the main thread; whether one of these calls raises is
\* up to the libraries and the platform
Worker130(i) ==
    /\ threads[i].pc = "l130"
    /\ \E drawn \in BOOLEAN :
         threads' = IF drawn
                    THEN [threads EXCEPT ![i].imgtk = i, ![i].pc = "l151"]
                    ELSE [threads EXCEPT ![i].e = "render",
                                         ![i].raised = "render",
                                         ![i].pc = "l154"]
    /\ UNCHANGED <<unchangedByWorker, tkqueue, decoded>>

\* line 151: root.after(0, update_ui)
Worker151(i) ==
    /\ threads[i].pc = "l151"
    /\ tkqueue' = After(i, "update_ui")
    /\ threads' = Goto(i, "end")
    /\ UNCHANGED <<unchangedByWorker, decoded>>

\* line 154: root.after(0, <set status_label to the error>)
Worker154(i) ==
    /\ threads[i].pc = "l154"
    /\ tkqueue' = After(i, "error")
    /\ threads' = Goto(i, "l155")
    /\ UNCHANGED <<unchangedByWorker, decoded>>

\* line 155: root.after(0, <enable upload_btn>)
Worker155(i) ==
    /\ threads[i].pc = "l155"
    /\ tkqueue' = After(i, "enable_upload")
    /\ threads' = Goto(i, "l156")
    /\ UNCHANGED <<unchangedByWorker, decoded>>

\* line 156: root.after(0, <enable analyze_btn>)
Worker156(i) ==
    /\ threads[i].pc = "l156"
    /\ tkqueue' = After(i, "enable_analyze")
    /\ threads' = Goto(i, "end")
    /\ UNCHANGED <<unchangedByWorker, decoded>>

\* analyze_audio returns and the thread ends.  Leaving the except block
\* unbinds e ("except ... as e" deletes the name at the end of the block).
WorkerReturn(i) ==
    /\ threads[i].pc = "end"
    /\ threads' = [threads EXCEPT ![i].e = "unbound", ![i].pc = "returned"]
    /\ UNCHANGED <<unchangedByWorker, tkqueue, decoded>>

Worker(i) ==
    \/ Worker117(i)
    \/ Worker118(i)
    \/ Worker122(i)
    \/ Worker124(i)
    \/ Worker126(i)
    \/ Worker130(i)
    \/ Worker151(i)
    \/ Worker154(i)
    \/ Worker155(i)
    \/ Worker156(i)
    \/ WorkerReturn(i)

----------------------------------------------------------------------------
(* The callbacks, run by the Tk main loop in the order root.after queued    *)
(* them.  Each closure reads the locals of the analyze_audio call that made *)
(* it (genre, fname, imgtk, e) when it runs.                               *)

Front == tkqueue[1]

Show(i, what) == [delivered EXCEPT ![i][what] = TRUE]

\* lines 122-123.  "analysed" records the file the genre was computed from.
RunResult ==
    /\ tkqueue # <<>> /\ Front.kind = "result"
    /\ tkqueue' = Tail(tkqueue)
    /\ result_label' = [genre |-> threads[Front.req].genre,
                        analysed |-> threads[Front.req].path]
    /\ delivered' = Show(Front.req, "label")
    /\ UNCHANGED <<harness, audio_path, upload_btn, analyze_btn, status_label,
                   filename_label, spectrogram_label, dialog, threads, decoded>>

\* lines 124-125
RunComplete ==
    /\ tkqueue # <<>> /\ Front.kind = "complete"
    /\ tkqueue' = Tail(tkqueue)
    /\ status_label' = <<"Status: Analysis complete.">>
    /\ UNCHANGED <<harness, audio_path, upload_btn, analyze_btn, result_label,
                   filename_label, spectrogram_label, dialog, threads,
                   delivered, decoded>>

\* lines 126-127
RunFilename ==
    /\ tkqueue # <<>> /\ Front.kind = "filename"
    /\ tkqueue' = Tail(tkqueue)
    /\ filename_label' = <<"Analyzed File", threads[Front.req].fname>>
    /\ UNCHANGED <<harness, audio_path, upload_btn, analyze_btn, status_label,
                   result_label, spectrogram_label, dialog, threads,
                   delivered, decoded>>

\* update_ui, lines 145-149
RunUpdateUi ==
    /\ tkqueue # <<>> /\ Front.kind = "update_ui"
    /\ tkqueue' = Tail(tkqueue)
    /\ spectrogram_label' = [image |-> threads[Front.req].imgtk, text |-> "",
                             ref |-> threads[Front.req].imgtk]
    /\ upload_btn' = "normal"
    /\ analyze_btn' = "normal"
    /\ delivered' = Show(Front.req, "image")
    /\ UNCHANGED <<harness, audio_path, status_label, result_label,
                   filename_label, dialog, threads, decoded>>

\* line 154: the lambda formats e.  Once the worker has left the except
\* block e is unbound, the lambda raises NameError before it reaches
\* configure, and Tk reports that on stderr: the display is not touched.
RunError ==
    /\ tkqueue # <<>> /\ Front.kind = "error"
    /\ tkqueue' = Tail(tkqueue)
    /\ IF threads[Front.req].e # "unbound"
       THEN /\ status_label' = <<"Error", threads[Front.req].e>>
            /\ delivered' = Show(Front.req, "error")
       ELSE UNCHANGED <<status_label, delivered>>
    /\ UNCHANGED <<harness, audio_path, upload_btn, analyze_btn, result_label,
                   filename_label, spectrogram_label, dialog, threads, decoded>>

\* line 155
RunEnableUpload ==
    /\ tkqueue # <<>> /\ Front.kind = "enable_upload"
    /\ tkqueue' = Tail(tkqueue)
    /\ upload_btn' = "normal"
    /\ UNCHANGED <<harness, audio_path, analyze_btn, status_label, result_label,
                   filename_label, spectrogram_label, dialog, threads,
                   delivered, decoded>>

\* line 156
RunEnableAnalyze ==
    /\ tkqueue # <<>> /\ Front.kind = "enable_analyze"
    /\ tkqueue' = Tail(tkqueue)
    /\ analyze_btn' = "normal"
    /\ UNCHANGED <<harness, audio_path, upload_btn, status_label, result_label,
                   filename_label, spectrogram_label, dialog, threads,
                   delivered, decoded>>

MainLoop ==
    \/ RunResult
    \/ RunComplete
    \/ RunFilename
    \/ RunUpdateUi
    \/ RunError
    \/ RunEnableUpload
    \/ RunEnableAnalyze

----------------------------------------------------------------------------
(* The program: the user's clicks, the worker threads and the main loop *)

Next ==
    \/ LoadAudioOpen
    \/ \E path \in Paths : LoadAudioChoose(path)
    \/ LoadAudioCancel
    \/ StartThread
    \/ \E i \in Requests : Worker117(i)
    \/ \E i \in Requests : Worker118(i)
    \/ \E i \in Requests : Worker122(i)
    \/ \E i \in Requests : Worker124(i)
    \/ \E i \in Requests : Worker126(i)
    \/ \E i \in Requests : Worker130(i)
    \/ \E i \in Requests : Worker151(i)
    \/ \E i \in Requests : Worker154(i)
    \/ \E i \in Requests : Worker155(i)
    \/ \E i \in Requests : Worker156(i)
    \/ \E i \in Requests : WorkerReturn(i)
    \/ RunResult
    \/ RunComplete
    \/ RunFilename
    \/ RunUpdateUi
    \/ RunError
    \/ RunEnableUpload
    \/ RunEnableAnalyze

Spec == Init /\ [][Next]_vars

\* A thread that can run does run, and the main loop keeps taking callbacks.
FairSpec ==
    /\ Spec
    /\ \A i \in Requests : WF_vars(Worker(i))
    /\ WF_vars(MainLoop)

----------------------------------------------------------------------------
(* predict_genre on its own: any quadruple of the grid, called repeatedly *)

GenreInit ==
    /\ features \in FeatureGrid
    /\ calls = <<>>
    /\ GuiInit

Classify ==
    /\ Len(calls) < MaxCalls
    /\ calls' = Append(calls, [line |-> predict_genre_line(features),
                               label |-> predict_genre(features)])
    /\ UNCHANGED <<features, gui>>

GenreNext == Classify

GenreSpec == GenreInit /\ [][GenreNext]_vars

----------------------------------------------------------------------------
(* The rule table of the specification (section 4.2), written from the     *)
(* table and not from the code, to compare predict_genre against.          *)

SpecRule(n, feats) ==
    LET c == feats[1]  r == feats[2]  b == feats[3]  t == feats[4] IN
    CASE n = 1 -> c < 1500 /\ r < 3000
      [] n = 2 -> 1500 <= c /\ c < 2500 /\ t < 25
      [] n = 3 -> /\ 2200 <= c /\ c < 4200
                  /\ 4000 <= r /\ r < 7000
                  /\ t < 22
                  /\ b > 1500
      [] n = 4 -> c >= 3500 /\ t >= 25 /\ r >= 5000
      [] n = 5 -> c >= 5200 \/ r > 7000
      [] n = 6 -> 2500 <= c /\ c < 3800 /\ r < 6000
      [] n = 7 -> TRUE

SpecLabel(n) ==
    CASE n = 1 -> "Classical"
      [] n = 2 -> "Jazz"
      [] n = 3 -> "Phonk"
      [] n = 4 -> "Hip-Hop / Rap"
      [] n = 5 -> "Rock"
      [] n = 6 -> "Pop"
      [] n = 7 -> "Pop"

FirstRule(feats) ==
    CHOOSE n \in 1..7 : SpecRule(n, feats) /\ \A m \in 1..(n - 1) : ~SpecRule(m, feats)

GenreLabels == {"Classical", "Jazz", "Phonk", "Hip-Hop / Rap", "Rock", "Pop"}

Called == calls # <<>>

----------------------------------------------------------------------------
(* Claims about predict_genre, checked under GenreSpec *)

\* C1: for every quadruple, every call of predict_genre returns the label of
\* the lowest-numbered rule of the specification's table whose condition
\* holds; a later rule that also holds does not change the label.
C1_FirstMatchWins ==
    \A k \in DOMAIN calls : calls[k].label = SpecLabel(FirstRule(features))

\* C1 witness: predict_genre has been called on a quadruple that satisfies
\* rules 2 and 3 (different labels), and returned the earlier rule's label.
C1_Witness ==
    /\ Called
    /\ SpecRule(2, features) /\ SpecRule(3, features)
    /\ calls[1].label = "Jazz"

\* C2: every call of predict_genre returns a value, the value is one of the
\* six genre labels (never empty, never None), and calls on the same
\* quadruple return the same label.
C2_TotalClosedDeterministic ==
    /\ \A k \in DOMAIN calls :
         /\ calls[k].label \in GenreLabels
         /\ calls[k].label \notin {"", "None"}
    /\ \A j, k \in DOMAIN calls : calls[j].label = calls[k].label

\* C2 witness: predict_genre was called twice on a quadruple that no
\* condition of lines 12-17 accepts, so the last return statement ran.
C2_Witness ==
    /\ Len(calls) >= 2
    /\ calls[1].line = 18
    /\ calls[2].label = "Pop"

\* C3 as stated: (3000, 100, 0, 0) is Pop by the default fallback, that is,
\* no condition of rules 1-6 accepts it and the last return statement
\* (line 18, rule 7) produces the label.
C3_PopByFallback ==
    \A k \in DOMAIN calls :
        features = <<3000, 100, 0, 0>> =>
            /\ calls[k].label = "Pop"
            /\ calls[k].line = 18
            /\ \A n \in 1..6 : ~SpecRule(n, features)

\* C3 amended: (3000, 100, 0, 0) is Pop because rule 6 accepts it (line 17
\* returns); rules 1-5 do not, and rule 7 is not reached.
C3_PopByRule6 ==
    \A k \in DOMAIN calls :
        features = <<3000, 100, 0, 0>> =>
            /\ calls[k].label = "Pop"
            /\ calls[k].line = 17
            /\ FirstRule(features) = 6

\* C3 witness: predict_genre has been called on (3000, 100, 0, 0).
C3_Witness ==
    /\ Called
    /\ features = <<3000, 100, 0, 0>>
    /\ calls[1].label = "Pop"

\* C4: with r < 3000, every c < 1500 is Classical and c = 1500 is not,
\* whatever b and t are.
C4_CentroidBoundaryExclusive ==
    \A k \in DOMAIN calls :
        features[2] < 3000 =>
            /\ features[1] < 1500 => calls[k].label = "Classical"
            /\ features[1] = 1500 => calls[k].label # "Classical"

\* C4 witness: predict_genre has been called on (1500, 2999, 0, 0) and did
\* not answer Classical.
C4_Witness ==
    /\ Called
    /\ features = <<1500, 2999, 0, 0>>
    /\ calls[1].label = "Jazz"

\* C4 second witness: just below the boundary the answer is Classical.
C4_WitnessBelow ==
    /\ Called
    /\ features = <<1499, 2999, 0, 0>>
    /\ calls[1].label = "Classical"

\* C5: every quadruple with c >= 5200 that rule 4 does not accept (not both
\* t >= 25 and r >= 5000) is Rock, whatever its rolloff.
C5_RockByCentroidAlone ==
    \A k \in DOMAIN calls :
        (features[1] >= 5200 /\ ~(features[4] >= 25 /\ features[2] >= 5000))
            => calls[k].label = "Rock"

\* C5 witness: predict_genre has been called on (6000, 100, 0, 0), whose
\* rolloff is far below 7000, and answered Rock.
C5_Witness ==
    /\ Called
    /\ features = <<6000, 100, 0, 0>>
    /\ calls[1].label = "Rock"

----------------------------------------------------------------------------
(* Claims about the analysis request, checked under Spec *)

SupportedExt == {".wav", ".mp3", ".flac", ".ogg"}

\* callbacks of request i still waiting in the main loop's queue
Queued(i, kinds) ==
    \E k \in DOMAIN tkqueue : tkqueue[k].req = i /\ tkqueue[k].kind \in kinds

AllKinds == {"result", "complete", "filename", "update_ui", "error",
             "enable_upload", "enable_analyze"}

\* the worker of request i still has a statement of analyze_audio to run
Working(i) == threads[i].pc \notin {"unstarted", "end", "returned"}

\* request i raised an exception (line 153 caught it)
Failed(i) == threads[i].raised # "none"

\* request i is over: its thread has returned and all its callbacks have run
Settled(i) == threads[i].pc = "returned" /\ ~Queued(i, AllKinds)

\* C6: a request that ends in failure delivers neither its label nor its
\* image, and a finished request that delivered its label delivered its
\* image too.
C6_AllOrNothing ==
    \A i \in Requests :
        /\ Failed(i) => ~delivered[i].label /\ ~delivered[i].image
        /\ (Settled(i) /\ delivered[i].label) => delivered[i].image

\* C7, the outcome of a finished request: it is either a completion (label
\* and image on the display) or a failure whose error message reached the
\* status display, never both and never neither; and the controls that the
\* request disabled are enabled again unless a later request holds them.
C7_FinishedIsCompleteOrReported ==
    \A i \in Requests :
        Settled(i) =>
            /\ (delivered[i].label /\ delivered[i].image) # delivered[i].error
            /\ Failed(i) => delivered[i].error
            /\ (\A j \in Requests : j > i => ~Started(j))
                   => (upload_btn = "normal" /\ analyze_btn = "normal")

\* C7, the progress half (under FairSpec): a started request is eventually
\* over with both controls enabled.
C7_ControlsComeBack ==
    \A i \in Requests :
        Started(i) ~> (Settled(i) /\ upload_btn = "normal" /\ analyze_btn = "normal")

\* C8 as stated: there is never more than one analyze_audio thread that has
\* been started and has not returned.
C8_OneThreadAlive ==
    Cardinality({i \in Requests : Alive(i)}) <= 1

\* C8 amended: there is never more than one analyze_audio thread that still
\* has a statement of analyze_audio to run (a thread that has made its last
\* root.after call but has not yet returned may overlap the next one).
C8_OneThreadWorking ==
    Cardinality({i \in Requests : Working(i)}) <= 1

\* C8 witness: a second request is at work while the thread of the first,
\* past its last root.after call, has not returned yet.
C8_Witness ==
    \E i, j \in Requests :
        /\ i # j
        /\ threads[i].pc = "end"
        /\ Working(j)

\* C9: a path whose extension is not a supported one is never handed to
\* librosa.load, and a request on such a path fails with the unsupported
\* format error, not with the decoder's.
C9_UnsupportedRejectedBeforeDecode ==
    /\ \A path \in decoded : Disk(path).ext \in SupportedExt
    /\ \A i \in Requests :
         (threads[i].path # NoPath /\ Disk(threads[i].path).ext \notin SupportedExt)
             => threads[i].raised = "unsupported"

\* the controls request i disabled have not all been enabled again
ControlsPending(i) ==
    /\ Started(i)
    /\ \/ Working(i)
       \/ Queued(i, {"update_ui", "enable_upload", "enable_analyze"})

\* the Upload control request i disabled has not been enabled again
UploadPending(i) ==
    /\ Started(i)
    /\ \/ threads[i].pc \notin {"l156", "end", "returned"}
       \/ Queued(i, {"update_ui", "enable_upload"})

\* a genre on the display was computed from the file audio_path names
ResultBelongs ==
    result_label.genre # "-" =>
        /\ result_label.analysed = audio_path
        /\ result_label.genre = predict_genre(Disk(audio_path).features)

\* C10 as stated: the displayed genre belongs to the loaded file, and
\* audio_path does not change from the start of a request until both
\* controls it disabled have been enabled again.
C10_PathFixedUntilControlsBack ==
    /\ []ResultBelongs
    /\ [][(\E i \in Requests : ControlsPending(i)) => audio_path' = audio_path]_vars

\* C10 amended: the displayed genre belongs to the loaded file, and
\* audio_path does not change from the start of a request until the Upload
\* control has been enabled again (on the failure path that is the callback
\* of line 155, which can run before the one of line 156 enables Analyze).
C10_PathFixedUntilUploadBack ==
    /\ []ResultBelongs
    /\ [][(\E i \in Requests : UploadPending(i)) => audio_path' = audio_path]_vars

\* C10 witness: a genre is on the display, computed by a finished request
\* from the file that is loaded, and the controls are enabled again.
C10_Witness ==
    /\ result_label.genre = "Rock"
    /\ audio_path = Mp3Path
    /\ upload_btn = "normal"
    /\ \E i \in Requests : Settled(i) /\ delivered[i].label /\ threads[i].path = Mp3Path

====
